---- MODULE Spec2Model ----
(***************************************************************************)
(* Model of src/solver/latent_diffusion.py: the solver registry, the       *)
(* classifier-free-guidance noise predictor and the sampling loops of the  *)
(* four registered solvers (ddim, treg, psld, p2l).                        *)
(*                                                                         *)
(* Tensors are modelled by scalars.  Latents, noise and pixels live in the *)
(* prime field GF(FieldSize), where the code's +, -, *, / and sqrt are     *)
(* computed exactly; embeddings are the residues 0..MaxEmb, with None for  *)
(* an absent embedding.  predict_noise itself is computed over the         *)
(* integers, the sampling loops reduce its result into the field.          *)
(***************************************************************************)
EXTENDS Integers, Sequences, FiniteSets, TLC

-----------------------------------------------------------------------------
(* Bounds of the model *)

\* latents range over 0..MaxLatent at least; the field is the next prime
MaxLatent == 10
\* embeddings are 0..MaxEmb
MaxEmb == 2
\* guidance scales are 0..MaxGuidance, 1 standing for the float 1.0
MaxGuidance == 2
\* number of solver instances get_solver may construct in a run
MaxConstructed == 2

None == 0 - 1

Emb == 0..MaxEmb
EmbOrNone == Emb \cup {None}
Guidance == 0..MaxGuidance

IsPrime(n) == n > 1 /\ \A d \in 2..(n - 1) : n % d # 0
FieldSize == CHOOSE p \in (MaxLatent + 1)..(2 * MaxLatent + 2) :
                 IsPrime(p) /\ \A q \in (MaxLatent + 1)..(p - 1) : ~IsPrime(q)
Field == 0..(FieldSize - 1)

-----------------------------------------------------------------------------
VARIABLES
    SOLVER,        \* __SOLVER__: name -> registered class, NoCls when absent
    reg_op,        \* the last registry operation and its outcome
    first_reg,     \* per name, the class of its first successful registration
    constructed,   \* sequence of classes get_solver has instantiated
    net,           \* the noise network: its response to each conditioning
    pn_in,         \* the arguments of the predict_noise call under study
    pn_out         \* what that call produced; Pending before the call

regVars == <<SOLVER, reg_op, first_reg, constructed>>
pnVars == <<net, pn_in, pn_out>>

-----------------------------------------------------------------------------
(* Factory: register_solver / get_solver *)

Names == {"ddim", "treg", "unknown"}
Classes == {"UncondSolver", "TRegSolver", "P2LSolver"}
NoCls == "NoCls"

\* the module-level dictionary as first created
EmptyRegistry == [n \in Names |-> NoCls]

\* mutant: the duplicate check is dropped and the later class wins
register_solver_overwrite(reg, name, cls) ==
    [registry |-> [reg EXCEPT ![name] = cls], raised |-> "none"]

\* register_solver(name)(cls): the registry afterwards and the exception raised
register_solver(reg, name, cls) ==
    IF reg[name] # NoCls
    THEN [registry |-> reg, raised |-> "ValueError"]
    ELSE [registry |-> [reg EXCEPT ![name] = cls], raised |-> "none"]

\* get_solver(name, **kwargs): the exception raised and the class instantiated
get_solver(reg, name) ==
    IF reg[name] = NoCls
    THEN [raised |-> "ValueError", made |-> <<>>]
    ELSE [raised |-> "none", made |-> <<reg[name]>>]

NoOp == [op |-> "none", name |-> "unknown", cls |-> NoCls, raised |-> "none",
         before |-> EmptyRegistry, made |-> 0]

InitRegistry ==
    /\ SOLVER = EmptyRegistry
    /\ reg_op = NoOp
    /\ first_reg = EmptyRegistry
    /\ constructed = <<>>

Register(name, cls) ==
    LET r == register_solver(SOLVER, name, cls) IN
    /\ SOLVER' = r.registry
    /\ first_reg' = IF r.raised = "none" /\ first_reg[name] = NoCls
                    THEN [first_reg EXCEPT ![name] = cls]
                    ELSE first_reg
    /\ reg_op' = [op |-> "register", name |-> name, cls |-> cls,
                  raised |-> r.raised, before |-> SOLVER, made |-> 0]
    /\ UNCHANGED constructed

GetSolver(name) ==
    LET r == get_solver(SOLVER, name) IN
    /\ Len(constructed) + Len(r.made) <= MaxConstructed
    /\ constructed' = constructed \o r.made
    /\ reg_op' = [op |-> "get", name |-> name, cls |-> NoCls,
                  raised |-> r.raised, before |-> SOLVER, made |-> Len(r.made)]
    /\ UNCHANGED <<SOLVER, first_reg>>

-----------------------------------------------------------------------------
(* Noise predictor: UncondSolver.predict_noise *)

\* self.unet(z, t, encoder_hidden_states=e)['sample'] for one batch element.
\* The network is an opaque collaborator: net gives its response to each
\* conditioning, None included.
Unet(z, t, e) == z + t + net[e]

\* one forward pass over a batch: element i is the network on (zs[i], ts[i], es[i])
UnetBatch(zs, ts, es) == [i \in 1..Len(es) |-> Unet(zs[i], ts[i], es[i])]

\* mutant: guidance interpolates from the conditional side
predict_noise_swapped(zt, t, uc, c, cfg_guidance, split) ==
    IF uc = None \/ cfg_guidance = 1
    THEN LET noise_pred == UnetBatch(<<zt>>, <<t>>, <<uc>>)[1] IN
         IF split
         THEN [raised |-> "UnboundLocalError", ret |-> <<>>, calls |-> <<<<uc>>>>]
         ELSE [raised |-> "none", ret |-> <<noise_pred>>, calls |-> <<<<uc>>>>]
    ELSE LET out == UnetBatch(<<zt, zt>>, <<t, t>>, <<uc, c>>)
             mixed == out[2] + cfg_guidance * (out[1] - out[2]) IN
         IF split
         THEN [raised |-> "none", ret |-> <<out[1], out[2]>>, calls |-> <<<<uc, c>>>>]
         ELSE [raised |-> "none", ret |-> <<mixed>>, calls |-> <<<<uc, c>>>>]

\* predict_noise(zt, t, uc, c, cfg_guidance, split): the exception raised, the
\* returned tensors and the conditioning batch of every network call made.
\* In the single-pass branch noise_uc and noise_c are never bound, so the
\* split return raises UnboundLocalError.
predict_noise(zt, t, uc, c, cfg_guidance, split) ==
    IF uc = None \/ cfg_guidance = 1
    THEN LET noise_pred == UnetBatch(<<zt>>, <<t>>, <<uc>>)[1] IN
         IF split
         THEN [raised |-> "UnboundLocalError", ret |-> <<>>, calls |-> <<<<uc>>>>]
         ELSE [raised |-> "none", ret |-> <<noise_pred>>, calls |-> <<<<uc>>>>]
    ELSE LET out == UnetBatch(<<zt, zt>>, <<t, t>>, <<uc, c>>)
             noise_uc == out[1]
             noise_c == out[2]
             mixed == noise_uc + cfg_guidance * (noise_c - noise_uc) IN
         IF split
         THEN [raised |-> "none", ret |-> <<noise_uc, noise_c>>, calls |-> <<<<uc, c>>>>]
         ELSE [raised |-> "none", ret |-> <<mixed>>, calls |-> <<<<uc, c>>>>]

Pending == [raised |-> "pending", ret |-> <<>>, calls |-> <<>>]

NoCall == [zt |-> 0, t |-> 0, uc |-> None, c |-> 0, cfg_guidance |-> 1, split |-> FALSE]

\* every network over the embeddings, the absent one included
Networks == [EmbOrNone -> 0..2]

InitPredict ==
    /\ net \in Networks
    /\ pn_in \in [zt : 0..1, t : 0..1, uc : EmbOrNone, c : Emb,
                  cfg_guidance : Guidance, split : BOOLEAN]
    /\ pn_out = Pending

CallPredictNoise ==
    /\ pn_out = Pending
    /\ pn_out' = predict_noise(pn_in.zt, pn_in.t, pn_in.uc, pn_in.c,
                               pn_in.cfg_guidance, pn_in.split)
    /\ UNCHANGED <<net, pn_in>>

-----------------------------------------------------------------------------
(* Arithmetic of the field of latents, noise and pixels *)

ToField(x) == ((x % FieldSize) + FieldSize) % FieldSize
Add(a, b) == ToField(a + b)
Sub(a, b) == ToField(a - b)
Mul(a, b) == ToField(a * b)
IsSquare(a) == \E r \in Field : Mul(r, r) = a

\* tables of inverses and of square roots (the least root)
InvTable == [a \in Field \ {0} |-> CHOOSE x \in Field : Mul(a, x) = 1]
SqrtTable == [a \in {x \in Field : IsSquare(x)} |->
                 CHOOSE r \in Field :
                     Mul(r, r) = a /\ \A q \in Field : Mul(q, q) = a => r <= q]

Inv(a) == InvTable[a]
Div(a, b) == Mul(a, Inv(b))
Sqrt(a) == SqrtTable[a]

\* the signed integer a field element stands for
Centered(x) == IF 2 * x > FieldSize THEN x - FieldSize ELSE x

\* a float that is not a number
NaN == 0 - 2

-----------------------------------------------------------------------------
(* Schedule: UncondSolver.__init__ *)

\* len(self.scheduler.timesteps) of the freshly loaded scheduler
TotalTimesteps == 174

\* solver_config.num_sampling
NumSamplings == {1, 2, 3, 4, TotalTimesteps}

\* steps_offset of the scheduler configuration
StepsOffsets == {0, 1}

\* self.skip
Skip(num_sampling) == TotalTimesteps \div num_sampling

\* self.scheduler.timesteps[step] after set_timesteps(num_sampling): the
\* multiples of skip, descending, shifted by steps_offset
Timestep(num_sampling, steps_offset, step) ==
    (num_sampling - 1 - step) * Skip(num_sampling) + steps_offset

\* cumulative alphas a such that a, 1 - a have square roots and a is invertible
GoodAlphas == {a \in Field : a # 0 /\ a # 1 /\ IsSquare(a) /\ IsSquare(Sub(1, a))}

\* the scheduler's own alphas_cumprod[i], before line 64 extends the table
GoodAlphaTable ==
    [k \in 0..(Cardinality(GoodAlphas) - 1) |->
        CHOOSE a \in GoodAlphas : Cardinality({b \in GoodAlphas : b < a}) = k]
SchedulerAlphasCumprod(i) == GoodAlphaTable[i % Cardinality(GoodAlphas)]

\* self.scheduler.alphas_cumprod[t] after 1.0 has been put in front
alphas_cumprod(t) == IF t = 0 THEN 1 ELSE SchedulerAlphasCumprod(t - 1)

\* self.final_alpha_cumprod (set_alpha_to_one is false for the model keys used)
final_alpha_cumprod == SchedulerAlphasCumprod(0)

\* mutant: the table is read at every step, the index clamped at 0
AtPrevClamped(prev_t) ==
    [val |-> alphas_cumprod(IF prev_t >= 0 THEN prev_t ELSE 0), src |-> "table"]

\* at_prev of a loop iteration, with where it was taken from
AtPrev(prev_t) ==
    IF prev_t >= 0
    THEN [val |-> alphas_cumprod(prev_t), src |-> "table"]
    ELSE [val |-> final_alpha_cumprod, src |-> "final"]

-----------------------------------------------------------------------------
(* Latent codec and text embedding *)

\* stands for the scale constant 0.18215
ScalingFactor == 2

\* the autoencoder, an opaque collaborator
VaeEncode(x) == Sub(x, 1)
VaeDecode(z) == Add(z, 1)

encode(x) == Mul(VaeEncode(x), ScalingFactor)
decode(zt_) == VaeDecode(Mul(Inv(ScalingFactor), zt_))

Clamp(v, lo, hi) == IF v < lo THEN lo ELSE IF v > hi THEN hi ELSE v

\* (decode(z0t) / 2 + 0.5).clamp(0, 1), in units of one half
FinalImage(z0t_) == Clamp(Centered(decode(z0t_)) + 1, 0, 2)

EmbSize == MaxEmb + 1

\* tokenizer and text encoder, opaque: prompts are numbered
TextEncoder(prompt) == (prompt + 1) % EmbSize

get_text_embed(null_prompt, prompt) ==
    [uc |-> TextEncoder(null_prompt), c |-> TextEncoder(prompt)]

-----------------------------------------------------------------------------
(* Data consistency and adaptive negation: TRegSolver *)

\* the forward operator and its adjoint
A(x) == x
At(y) == y

\* default of cg_lamb
CgLamb == 1

\* CG(A, b, x, m): the solution of (At A + cg_lamb I) x = b
CG(b, x, cg_lamb) == Div(b, Add(At(A(1)), cg_lamb))

data_consistency(z0t_, measurement_, cg_lamb) ==
    LET x0t == decode(z0t_)
        bvec == Add(At(measurement_), Mul(cg_lamb, x0t))
        x0y_ == CG(bvec, x0t, cg_lamb)
    IN [z0y |-> encode(x0y_), x0y |-> x0y_]

\* default of num_iter
NumIter == 10

\* direction of the image features self.clip_img_enc(x0), normalised
ClipSign(x0) == IF Centered(x0) >= 0 THEN 1 ELSE 0 - 1

\* Adam on the loss mean(img_feats @ uc): its gradient is the feature
\* direction at every iteration, so uc moves num_iter steps against it
adaptive_negation(x0, uc_) ==
    (((uc_ - NumIter * ClipSign(x0)) % EmbSize) + EmbSize) % EmbSize

-----------------------------------------------------------------------------
(* The sampling loops *)

VARIABLES
    kw,            \* the arguments of sample() and the solver configuration
    pc,            \* "loop", "tuned" (p2l, between tuning and update), "done"
    step,          \* the loop index
    zt,            \* the latent
    z0t,           \* the denoised estimate, None before the first iteration
    noise_pred,    \* the noise estimate of the last iteration
    uc,            \* the null embedding
    c,             \* the conditional embedding
    measurement,   \* the measurement
    x0y,           \* the last data-consistency result in pixel space
    dc_calls,      \* number of data_consistency calls made so far
    img,           \* the returned image, None until returned
    at_prev,       \* at_prev of the last iteration and where it came from
    zt_pre,        \* the latent the last iteration started from
    branch,        \* the branch the last iteration took
    c_attached,    \* p2l: the loop's c is the tensor the optimizer holds a graph to
    exp_avg,       \* p2l: direction of Adam's first moment for c
    c_pre,         \* p2l: c before the last tuning
    loss_grad      \* p2l: direction of d loss_c / d c at the last tuning

solveVars == <<kw, pc, step, zt, z0t, noise_pred, uc, c, measurement, x0y, dc_calls, img,
               at_prev, zt_pre, branch, c_attached, exp_avg, c_pre, loss_grad>>

\* the network used by the sampling loops
SolveNet == [e \in EmbOrNone |-> IF e = None THEN 0 ELSE e + 1]

\* predict_noise(..., split=False) as a field element
PredictField(zt_, t, uc_, c_, cfg_guidance) ==
    ToField(predict_noise(zt_, t, uc_, c_, cfg_guidance, FALSE).ret[1])

\* z0t = (zt - (1-at).sqrt() * noise_pred) / at.sqrt()
Tweedie(zt_, noise_pred_, at) ==
    Div(Sub(zt_, Mul(Sqrt(Sub(1, at)), noise_pred_)), Sqrt(at))

\* at_prev.sqrt() * z0t + (1-at_prev).sqrt() * noise_pred
Ancestral(z0t_, noise_pred_, at_prev_) ==
    Add(Mul(Sqrt(at_prev_), z0t_), Mul(Sqrt(Sub(1, at_prev_)), noise_pred_))

\* torch.autograd.grad(norm(measurement - A(decode(z0t))), zt): the residual
\* pulled back to the latent
ResidueGrad(z0t_, measurement_) == Sub(A(decode(z0t_)), measurement_)

\* sig = eta * ((1-at_prev)/(1-at)).sqrt() * (1-at/at_prev).sqrt() with
\* eta = 0.0: zero, except that at = 1 divides by zero and gives nan
Sigma(at, at_prev_) == IF Sub(1, at) = 0 THEN NaN ELSE 0

\* zt_prime of Equation (12) of DDIM
DdimProposal(z0t_, noise_pred_, at, at_prev_, noise) ==
    LET sig == Sigma(at, at_prev_) IN
    IF sig = NaN THEN NaN
    ELSE Add(Add(Mul(Sqrt(at_prev_), z0t_),
                 Mul(Sqrt(Sub(Sub(1, at_prev_), Mul(sig, sig))), noise_pred_)),
             Mul(sig, noise))

SubNaN(a, b) == IF a = NaN \/ b = NaN THEN NaN ELSE Sub(a, b)

InitLatents == 0..1
Noises == 0..1
Prompts == {<<0, 0>>, <<0, 1>>}
DpsLambs == {None, 0, 1}

\* configurations of the variants without variant-specific flags
PlainConfigs ==
    [variant : {"ddim", "psld"}, num_sampling : NumSamplings,
     steps_offset : StepsOffsets, cfg_guidance : Guidance, prompt : Prompts,
     use_DPS : {FALSE}, use_AN : {TRUE}, dps_lamb : {None},
     set_to_none : {TRUE}]

\* p2l: set_to_none is the default of Optimizer.zero_grad in the torch build
P2LConfigs ==
    [variant : {"p2l"}, num_sampling : NumSamplings,
     steps_offset : StepsOffsets, cfg_guidance : Guidance, prompt : Prompts,
     use_DPS : {FALSE}, use_AN : {TRUE}, dps_lamb : {None},
     set_to_none : BOOLEAN]

\* treg: use_DPS, use_AN and dps_lamb are read from kwargs
TRegConfigs ==
    {k \in [variant : {"treg"}, num_sampling : NumSamplings,
            steps_offset : StepsOffsets, cfg_guidance : Guidance, prompt : Prompts,
            use_DPS : BOOLEAN, use_AN : BOOLEAN, dps_lamb : DpsLambs,
            set_to_none : {TRUE}] : k.use_DPS \/ k.dps_lamb = None}

SolveConfigs == PlainConfigs \cup P2LConfigs \cup TRegConfigs

NoAtPrev == [val |-> 1, src |-> "none"]

\* sample() up to the loop: text embedding and the initial latent
InitSolve ==
    /\ kw \in SolveConfigs
    /\ pc = "loop"
    /\ step = 0
    /\ zt \in InitLatents
    /\ z0t = None
    /\ noise_pred = None
    /\ uc = get_text_embed(kw.prompt[1], kw.prompt[2]).uc
    /\ c = get_text_embed(kw.prompt[1], kw.prompt[2]).c
    /\ measurement = 1
    /\ x0y = None
    /\ dc_calls = 0
    /\ img = None
    /\ at_prev = NoAtPrev
    /\ zt_pre = None
    /\ branch = "none"
    /\ c_attached = TRUE
    /\ exp_avg = 0
    /\ c_pre = None
    /\ loss_grad = 0

T == Timestep(kw.num_sampling, kw.steps_offset, step)
PrevT == T - Skip(kw.num_sampling)
InLoop == pc = "loop" /\ step < kw.num_sampling

\* one iteration of UncondSolver.sample
DdimStep ==
    /\ kw.variant = "ddim" /\ InLoop
    /\ LET at == alphas_cumprod(T)
           ap == AtPrev(PrevT)
           np == PredictField(zt, T, uc, c, kw.cfg_guidance)
           z0 == Tweedie(zt, np, at)
       IN /\ noise_pred' = np
          /\ z0t' = z0
          /\ zt' = Ancestral(z0, np, ap.val)
          /\ at_prev' = ap
    /\ zt_pre' = zt
    /\ branch' = "ancestral"
    /\ step' = step + 1
    /\ UNCHANGED <<kw, pc, uc, c, measurement, x0y, dc_calls, img, c_attached, exp_avg,
                   c_pre, loss_grad>>

\* mutant: the advanced latent is decoded
FinishFromLatent ==
    /\ pc = "loop" /\ step = kw.num_sampling
    /\ img' = FinalImage(zt)
    /\ pc' = "done"
    /\ UNCHANGED <<kw, step, zt, z0t, noise_pred, uc, c, measurement, x0y, dc_calls,
                   at_prev, zt_pre, branch, c_attached, exp_avg, c_pre, loss_grad>>

\* for the last step, do not add noise: decode z0t, clamp, return
Finish ==
    /\ pc = "loop" /\ step = kw.num_sampling
    /\ img' = FinalImage(z0t)
    /\ pc' = "done"
    /\ UNCHANGED <<kw, step, zt, z0t, noise_pred, uc, c, measurement, x0y,
                   dc_calls, at_prev, zt_pre, branch, c_attached, exp_avg, c_pre, loss_grad>>


\* the consistency-regularized steps
BlendPeriod == 3
BlendLimit == 170

\* mutant: the consistency cadence never stops
IsBlendStepUnlimited(k) == k % BlendPeriod = 0

IsBlendStep(k) == k % BlendPeriod = 0 /\ k < BlendLimit

\* mutant: adaptive negation runs whether or not use_AN is set
NextUcAlways(use_AN, x0y_, uc_) == adaptive_negation(x0y_, uc_)

\* if use_AN: uc = self.adaptive_negation(x0y, uc, lr=null_lr)
NextUc(use_AN, x0y_, uc_) == IF use_AN THEN adaptive_negation(x0y_, uc_) ELSE uc_

\* mutant: a dps_lamb of 0 is taken for a missing one
DpsLambOr(dps_lamb, at_prev_) == IF dps_lamb # None /\ dps_lamb # 0 THEN dps_lamb ELSE Sqrt(at_prev_)

\* dps_lamb = dps_lamb if dps_lamb is not None else at_prev.sqrt()
DpsLamb(dps_lamb, at_prev_) == IF dps_lamb # None THEN dps_lamb ELSE Sqrt(at_prev_)

\* DDPM-like noise adding of the blend step
BlendAdvance(z0t_, z0y, noise_pred_, at_prev_, noise) ==
    LET z0_ema == Add(Mul(at_prev_, z0y), Mul(Sub(1, at_prev_), z0t_))
        z1 == Add(Mul(Sqrt(at_prev_), z0_ema), Mul(Sub(1, at_prev_), noise_pred_))
    IN Add(z1, Mul(Mul(Sqrt(Sub(1, at_prev_)), Sqrt(at_prev_)), noise))

\* one iteration of TRegSolver.sample
TRegStep ==
    /\ kw.variant = "treg" /\ InLoop
    /\ \E noise \in Noises :
       LET at == alphas_cumprod(T)
           ap == AtPrev(PrevT)
       IN /\ at_prev' = ap
          /\ IF IsBlendStep(step)
             THEN LET np == PredictField(zt, T, uc, c, kw.cfg_guidance)
                      z0 == Tweedie(zt, np, at)
                      dc == data_consistency(z0, measurement, CgLamb)
                  IN /\ noise_pred' = np
                     /\ z0t' = z0
                     /\ x0y' = dc.x0y
                     /\ dc_calls' = dc_calls + 1
                     /\ uc' = NextUc(kw.use_AN, dc.x0y, uc)
                     /\ zt' = BlendAdvance(z0, dc.z0y, np, ap.val, noise)
                     /\ branch' = "blend"
             ELSE IF kw.use_DPS
             THEN LET dps_lamb == DpsLamb(kw.dps_lamb, ap.val)
                      np == PredictField(zt, T, uc, c, 0)
                      z0 == Tweedie(zt, np, at)
                      zt_prime == Ancestral(z0, np, ap.val)
                      grad == ResidueGrad(z0, measurement)
                  IN /\ noise_pred' = np
                     /\ z0t' = z0
                     /\ zt' = Sub(zt_prime, Mul(dps_lamb, grad))
                     /\ branch' = "dps"
                     /\ UNCHANGED <<x0y, dc_calls, uc>>
             ELSE LET np == PredictField(zt, T, uc, c, kw.cfg_guidance)
                      z0 == Tweedie(zt, np, at)
                  IN /\ noise_pred' = np
                     /\ z0t' = z0
                     /\ zt' = Ancestral(z0, np, ap.val)
                     /\ branch' = "plain"
                     /\ UNCHANGED <<x0y, dc_calls, uc>>
    /\ zt_pre' = zt
    /\ step' = step + 1
    /\ UNCHANGED <<kw, pc, c, measurement, img, c_attached, exp_avg, c_pre,
                   loss_grad>>

\* gradient of omega * residue + gamma * z0_residue, omega = 1.0, gamma = 0.5
PsldGrad(z0t_, measurement_) ==
    LET x0t == decode(z0t_)
        ortho_project == Sub(x0t, At(A(x0t)))
        projected == Add(At(measurement_), ortho_project)
        recon_z == encode(projected)
    IN Add(ResidueGrad(z0t_, measurement_), Div(Sub(recon_z, z0t_), 2))

\* one iteration of LDPSSolver.sample
PsldStep ==
    /\ kw.variant = "psld" /\ InLoop
    /\ \E noise \in Noises :
       LET at == alphas_cumprod(T)
           ap == AtPrev(PrevT)
           np == PredictField(zt, T, uc, c, kw.cfg_guidance)
           z0 == Tweedie(zt, np, at)
           zt_prime == DdimProposal(z0, np, at, ap.val, noise)
       IN /\ noise_pred' = np
          /\ z0t' = z0
          /\ zt' = SubNaN(zt_prime, PsldGrad(z0, measurement))
          /\ at_prev' = ap
    /\ zt_pre' = zt
    /\ branch' = "psld"
    /\ step' = step + 1
    /\ UNCHANGED <<kw, pc, uc, c, measurement, x0y, dc_calls, img, c_attached, exp_avg,
                   c_pre, loss_grad>>

\* direction of the gradient of loss_c(A, y, zt, c, at, t) with respect to c
LossCGrad(zt_, c_, at, t, y) ==
    LET np == PredictField(zt_, t, c_, c_, 1)
        z0 == Tweedie(zt_, np, at)
        r == Centered(Sub(A(decode(z0)), y))
    IN IF r > 0 THEN 1 ELSE IF r < 0 THEN 0 - 1 ELSE 0

\* c.grad of the optimizer's tensor after zero_grad() and loss_c.backward():
\* the loss reaches it only while the loop's c is that tensor; otherwise the
\* gradient stays as zero_grad left it, absent or zero
ParamGrad(attached, set_to_none, g) ==
    IF attached THEN <<g>> ELSE IF set_to_none THEN <<>> ELSE <<0>>

\* direction of Adam's first moment after a step with gradient direction g
AdamMoment(m, g) == IF g = 0 THEN m ELSE g

\* optim_c.step(): a parameter without gradient is skipped, otherwise it
\* moves one step against the first moment
AdamStep(param, m, grad) ==
    IF grad = <<>>
    THEN [param |-> param, exp_avg |-> m]
    ELSE LET m2 == AdamMoment(m, grad[1])
         IN [param |-> (((param - m2) % EmbSize) + EmbSize) % EmbSize, exp_avg |-> m2]

\* prompt tuning of P2LSolver.sample: loss_c, backward, optimizer step, detach
P2LTune ==
    /\ kw.variant = "p2l" /\ InLoop
    /\ LET at == alphas_cumprod(T)
           g == LossCGrad(zt, c, at, T, measurement)
           r == AdamStep(c, exp_avg, ParamGrad(c_attached, kw.set_to_none, g))
       IN /\ c' = r.param
          /\ exp_avg' = r.exp_avg
          /\ loss_grad' = g
    /\ c_pre' = c
    /\ c_attached' = FALSE
    /\ pc' = "tuned"
    /\ UNCHANGED <<kw, step, zt, z0t, noise_pred, uc, measurement, x0y, dc_calls, img,
                   at_prev, zt_pre, branch>>

\* the main update of P2LSolver.sample
P2LStep ==
    /\ kw.variant = "p2l" /\ pc = "tuned"
    /\ \E noise \in Noises :
       LET at == alphas_cumprod(T)
           ap == AtPrev(PrevT)
           np == PredictField(zt, T, uc, c, kw.cfg_guidance)
           z0 == Tweedie(zt, np, at)
           zt_prime == DdimProposal(z0, np, at, ap.val, noise)
       IN /\ noise_pred' = np
          /\ z0t' = z0
          /\ zt' = SubNaN(zt_prime, ResidueGrad(z0, measurement))
          /\ at_prev' = ap
    /\ zt_pre' = zt
    /\ branch' = "p2l"
    /\ step' = step + 1
    /\ pc' = "loop"
    /\ UNCHANGED <<kw, uc, c, measurement, x0y, dc_calls, img, c_attached, exp_avg,
                   c_pre, loss_grad>>

SolveNext == DdimStep \/ TRegStep \/ PsldStep \/ P2LTune \/ P2LStep \/ Finish

\* no solve in progress
IdleSolve ==
    /\ kw = CHOOSE k \in PlainConfigs : TRUE
    /\ pc = "done" /\ step = 0 /\ zt = 0 /\ z0t = None /\ noise_pred = None
    /\ uc = None /\ c = None /\ measurement = 0 /\ x0y = None /\ dc_calls = 0 /\ img = None
    /\ at_prev = NoAtPrev /\ zt_pre = None /\ branch = "none"
    /\ c_attached = FALSE /\ exp_avg = 0 /\ c_pre = None /\ loss_grad = 0

vars == <<SOLVER, reg_op, first_reg, constructed, net, pn_in, pn_out, solveVars>>

-----------------------------------------------------------------------------
(* Specifications *)

IdleNet == [e \in EmbOrNone |-> 0]
IdlePredict == net = IdleNet /\ pn_in = NoCall /\ pn_out = Pending

\* the registry on its own
SpecRegistryInit == InitRegistry /\ IdlePredict /\ IdleSolve
SpecRegistryNext ==
    \/ \E name \in Names, cls \in Classes :
           Register(name, cls) /\ UNCHANGED <<pnVars, solveVars>>
    \/ \E name \in Names : GetSolver(name) /\ UNCHANGED <<pnVars, solveVars>>
SpecRegistry == SpecRegistryInit /\ [][SpecRegistryNext]_vars

\* one predict_noise call on every input
SpecPredictInit == InitPredict /\ InitRegistry /\ IdleSolve
SpecPredictNext == CallPredictNoise /\ UNCHANGED <<regVars, solveVars>>
SpecPredict == SpecPredictInit /\ [][SpecPredictNext]_vars

\* one sample() call of every variant on every configuration
SpecSolveInit ==
    /\ InitSolve /\ InitRegistry
    /\ net = SolveNet /\ pn_in = NoCall /\ pn_out = Pending
SpecSolveNext ==
    \/ DdimStep /\ UNCHANGED <<regVars, pnVars>>
    \/ TRegStep /\ UNCHANGED <<regVars, pnVars>>
    \/ PsldStep /\ UNCHANGED <<regVars, pnVars>>
    \/ P2LTune /\ UNCHANGED <<regVars, pnVars>>
    \/ P2LStep /\ UNCHANGED <<regVars, pnVars>>
    \/ Finish /\ UNCHANGED <<regVars, pnVars>>
SpecSolve == SpecSolveInit /\ [][SpecSolveNext]_vars

-----------------------------------------------------------------------------
(* Claims about the noise predictor, checked under SpecPredict *)

Called == pn_out # Pending
SinglePass == pn_in.uc = None \/ pn_in.cfg_guidance = 1
CondPass == Unet(pn_in.zt, pn_in.t, pn_in.c)
UncondPass == Unet(pn_in.zt, pn_in.t, pn_in.uc)

\* C1: whenever uc is absent or the guidance scale is 1.0, the returned noise
\* estimate is the network's single pass conditioned on c, for every uc # c.
C1_SinglePassIsConditional ==
    (Called /\ SinglePass /\ ~pn_in.split /\ pn_in.uc # pn_in.c)
        => (pn_out.raised = "none" /\ pn_out.ret = <<CondPass>>)

\* C3: with split=True the call returns the pair (noise_uc, noise_c) and does
\* not fail, whatever uc and the guidance scale are.
C3_SplitReturnsPair ==
    (Called /\ pn_in.split)
        => (pn_out.raised = "none" /\ pn_out.ret = <<UncondPass, CondPass>>)

\* C4: with uc present and guidance scale # 1.0 the network is evaluated once
\* on the doubled batch [uc, c] and the result is
\* noise_uc + guidance_scale * (noise_c - noise_uc): the unconditional pass at
\* scale 0, and a point on the far side of noise_c at scales above 1.
C4_GuidanceMix ==
    (Called /\ ~SinglePass /\ ~pn_in.split)
        => LET g == pn_in.cfg_guidance
               r == pn_out.ret[1] IN
           /\ pn_out.raised = "none"
           /\ pn_out.calls = <<<<pn_in.uc, pn_in.c>>>>
           /\ Len(pn_out.ret) = 1
           /\ r = UncondPass + g * (CondPass - UncondPass)
           /\ g = 0 => r = UncondPass
           /\ g > 1 => /\ CondPass > UncondPass => r > CondPass
                       /\ CondPass < UncondPass => r < CondPass
                       /\ CondPass = UncondPass => r = CondPass

C4_Witness ==
    /\ Called /\ ~SinglePass /\ ~pn_in.split
    /\ pn_in.cfg_guidance > 1
    /\ CondPass > UncondPass
    /\ pn_out.ret[1] > CondPass

-----------------------------------------------------------------------------
(* Claims about the registry, checked under SpecRegistry *)

\* C5: a duplicate registration raises and leaves the registry as it was, a
\* get_solver of an unregistered name raises, constructs nothing and leaves
\* the registry as it was, and every registered name is bound to the class of
\* its first successful registration.
C5_RegistryErrors ==
    /\ (reg_op.op = "register" /\ reg_op.before[reg_op.name] # NoCls)
           => (reg_op.raised = "ValueError" /\ SOLVER = reg_op.before)
    /\ (reg_op.op = "get" /\ reg_op.before[reg_op.name] = NoCls)
           => (reg_op.raised = "ValueError" /\ reg_op.made = 0
               /\ SOLVER = reg_op.before)
    /\ reg_op.op = "get" => SOLVER = reg_op.before
    /\ \A n \in Names : SOLVER[n] # NoCls => SOLVER[n] = first_reg[n]

C5_Witness ==
    /\ reg_op.op = "register"
    /\ reg_op.raised = "ValueError"
    /\ reg_op.cls # SOLVER[reg_op.name]
    /\ \E n \in Names : SOLVER[n] = NoCls
    /\ Len(constructed) > 0

-----------------------------------------------------------------------------
(* Claims about the sampling loops, checked under SpecSolve *)

\* the loop index, timestep and prev_t of the last completed iteration
LastK == step - 1
LastT == Timestep(kw.num_sampling, kw.steps_offset, LastK)
LastPrevT == LastT - (TotalTimesteps \div kw.num_sampling)

\* C2: in P2LSolver.sample, at every timestep the optimizer step on the
\* lookahead loss changes the conditional embedding c used from then on
\* (whenever that loss has a gradient in c), before the main update of the step.
C2_TunedEveryStep ==
    (kw.variant = "p2l" /\ pc = "tuned" /\ loss_grad # 0) => c # c_pre

\* C6 as stated: prev_t = t - skip, at_prev is the table value at prev_t when
\* prev_t >= 0 and the terminal constant when prev_t < 0, and the terminal
\* constant is used at the final step of the schedule and at no earlier one.
C6_TerminalAlphaAtFinalStep ==
    step > 0 =>
        /\ LastPrevT >= 0 =>
               at_prev = [val |-> alphas_cumprod(LastPrevT), src |-> "table"]
        /\ LastPrevT < 0 =>
               at_prev = [val |-> final_alpha_cumprod, src |-> "final"]
        /\ at_prev.src = "final" <=> step = kw.num_sampling

\* C6 amended: as above, but the terminal constant is used at no step before
\* the final one, and at the final step exactly when the final timestep is
\* smaller than skip.
C6_TerminalAlphaOnlyWhenNegative ==
    step > 0 =>
        /\ LastPrevT >= 0 =>
               at_prev = [val |-> alphas_cumprod(LastPrevT), src |-> "table"]
        /\ LastPrevT < 0 =>
               at_prev = [val |-> final_alpha_cumprod, src |-> "final"]
        /\ at_prev.src = "final" => step = kw.num_sampling
        /\ step = kw.num_sampling =>
               (at_prev.src = "final" <=> LastT < TotalTimesteps \div kw.num_sampling)
        /\ step < kw.num_sampling =>
               LastT - Timestep(kw.num_sampling, kw.steps_offset, step)
                   = TotalTimesteps \div kw.num_sampling

C6_Witness ==
    /\ step = kw.num_sampling
    /\ kw.num_sampling > 1
    /\ kw.steps_offset = 1
    /\ at_prev.src = "final"

\* C7: every variant runs one iteration per schedule timestep and then
\* stops; the returned image is clamp(decode(z0t)/2 + 0.5, 0, 1) for the z0t of
\* the last iteration, which is fixed by the latent that iteration started
\* from and its noise estimate, so it lies in [0,1] and does not depend on the
\* latent (or the noise) the last iteration's advance produced.
C7_DecodeLastEstimate ==
    /\ step \in 0..kw.num_sampling
    /\ pc # "done" => ENABLED SpecSolveNext
    /\ pc = "done" =>
        /\ ~ENABLED SpecSolveNext
        /\ step = kw.num_sampling
        /\ LastT = kw.steps_offset
        /\ LET z0 == Tweedie(zt_pre, noise_pred, alphas_cumprod(LastT))
               x == Centered(decode(z0)) + 1
           IN img = IF x < 0 THEN 0 ELSE IF x > 2 THEN 2 ELSE x
        /\ img \in 0..2

C7_Witness ==
    /\ pc = "done"
    /\ kw.variant = "treg"
    /\ branch = "blend"
    /\ kw.num_sampling > 1
    /\ img # FinalImage(zt)

\* C8: in TRegSolver.sample the data-consistency solve and the blended,
\* noise-injecting update run at step k iff k % 3 = 0 and k < 170; every
\* other step is the gradient-guided correction when use_DPS is set and the
\* plain ancestral step otherwise, without data consistency.
C8_BlendCadence ==
    (kw.variant = "treg" /\ step > 0) =>
        /\ branch = "blend" <=> (LastK % 3 = 0 /\ LastK < 170)
        /\ branch # "blend" => branch = IF kw.use_DPS THEN "dps" ELSE "plain"
        /\ dc_calls = Cardinality({k \in 0..LastK : k % 3 = 0 /\ k < 170})
        /\ branch = "blend" =>
            /\ x0y = data_consistency(z0t, measurement, CgLamb).x0y
            /\ \E noise \in Noises :
                   zt = BlendAdvance(z0t, encode(x0y), noise_pred, at_prev.val, noise)
        /\ branch = "plain" => zt = Ancestral(z0t, noise_pred, at_prev.val)

C8_Witness ==
    /\ kw.variant = "treg"
    /\ step = 172
    /\ branch = "dps"
    /\ dc_calls = 57

\* C9: in TRegSolver.sample uc changes only at blend steps with use_AN set,
\* where it becomes adaptive_negation(x0y, uc) for that step's x0y; every
\* step's noise prediction reads the current uc; without use_AN uc stays the
\* embedding get_text_embed returned; the measurement never changes.
C9_UcFrame ==
    [][kw.variant = "treg" =>
        /\ measurement' = measurement
        /\ (step' = step + 1 /\ step % 3 = 0 /\ step < 170 /\ kw.use_AN)
               => uc' = adaptive_negation(x0y', uc)
        /\ ~(step' = step + 1 /\ step % 3 = 0 /\ step < 170 /\ kw.use_AN)
               => uc' = uc
        /\ ~kw.use_AN => uc' = get_text_embed(kw.prompt[1], kw.prompt[2]).uc
        /\ step' = step + 1 =>
               noise_pred' = PredictField(zt, T, uc, c,
                                 IF branch' = "dps" THEN 0 ELSE kw.cfg_guidance)
      ]_vars

C9_Witness ==
    /\ kw.variant = "treg"
    /\ kw.use_AN
    /\ uc # get_text_embed(kw.prompt[1], kw.prompt[2]).uc
    /\ branch = "dps"
    /\ step > 4

\* C10: on a non-blend step with use_DPS the gradient is subtracted from the
\* latent advanced by the unconditional noise estimate (guidance scale 0
\* whatever cfg_guidance is), scaled by dps_lamb when one was supplied (0
\* included) and by sqrt(at_prev) of the step otherwise.
C10_DpsStep ==
    [][(kw.variant = "treg" /\ kw.use_DPS /\ step' = step + 1
            /\ ~(step % 3 = 0 /\ step < 170)) =>
        LET noise_uc == ToField(Unet(zt, T, uc))
            z0 == Tweedie(zt, noise_uc, alphas_cumprod(T))
            lamb == IF kw.dps_lamb = None THEN Sqrt(at_prev'.val) ELSE kw.dps_lamb
        IN /\ noise_pred' = noise_uc
           /\ z0t' = z0
           /\ zt' = Sub(Ancestral(z0, noise_uc, at_prev'.val),
                        Mul(lamb, ResidueGrad(z0, measurement)))
      ]_vars

C10_Witness ==
    /\ kw.variant = "treg"
    /\ branch = "dps"
    /\ kw.dps_lamb = 0
    /\ kw.cfg_guidance > 1
    /\ uc # c
    /\ zt = Ancestral(z0t, noise_pred, at_prev.val)
    /\ ResidueGrad(z0t, measurement) # 0

\* C11: in P2LSolver.sample at guidance scale 1.0 the noise estimate of the
\* main update depends on the c tuned at that step: a run that agrees on zt,
\* t, uc and the measurement but has another c, which the network tells
\* apart from this one, gets a different main-update noise estimate.
C11_MainNoiseDependsOnC ==
    (kw.variant = "p2l" /\ pc = "loop" /\ branch = "p2l" /\ kw.cfg_guidance = 1)
        => \A c2 \in Emb :
               net[c2] # net[c]
                   => PredictField(zt_pre, LastT, uc, c2, kw.cfg_guidance) # noise_pred

====
